---- MODULE Spec2Model ----
(***************************************************************************)
(* Construction of the classifiers and residual blocks of hw2/cnn.py.      *)
(*                                                                         *)
(* A layer object is a record [kind, kw]: the class of the layer and the   *)
(* keyword arguments it was constructed with (a dict: a function whose     *)
(* domain is the set of keys that were passed).  A residual block is the   *)
(* record [kind, main_path, shortcut_path].  An nn.Sequential is the       *)
(* sequence of its layers.  Fractions (dropout p, negative_slope) are      *)
(* written in hundredths.                                                  *)
(***************************************************************************)
EXTENDS Integers, Sequences, FiniteSets, TLC

VARIABLES cls, args, pc, raised, attrs,
          feature_extractor, classifier, pools_num, features_num,
          main_path, shortcut_path

vars == <<cls, args, pc, raised, attrs,
          feature_extractor, classifier, pools_num, features_num,
          main_path, shortcut_path>>

(***************************************************************************)
(* Bounds of the explored inputs.                                          *)
(***************************************************************************)
MaxN == 3        \* longest channels / kernel_sizes list
MaxM == 2        \* longest hidden_dims list
MaxP == 3        \* largest pool_every
MaxDim == 4      \* largest input height / width
MaxKernel == 3   \* largest kernel_size in conv_params / pooling_params

ChannelValues == {1, 2}
KernelValues == {1, 2, 3}
NoDict == <<>>                                   \* the empty dict {}

SeqsUpTo(S, n) == UNION {[1..k -> S] : k \in 0..n}

(***************************************************************************)
(* Python helpers.                                                         *)
(***************************************************************************)
ACTIVATIONS == {"relu", "lrelu"}
POOLINGS == {"avg", "max"}

\* d[k] if k in d else default
Get(d, k, default) == IF k \in DOMAIN d THEN d[k] ELSE default

\* int(a / b) for b > 0: true division, then truncation toward zero
IntDiv(a, b) == IF a >= 0 THEN a \div b ELSE -((-a) \div b)

\* seq[lo:hi] with 0 <= lo <= hi (0-based, hi exclusive, clipped to the length)
Slice(seq, lo, hi) ==
    LET top == IF hi < Len(seq) THEN hi ELSE Len(seq)
    IN  IF lo >= top THEN <<>> ELSE [i \in 1..(top - lo) |-> seq[lo + i]]

\* [x] * n
Repeat(x, n) == [i \in 1..n |-> x]

Layer(kind, kw) == [kind |-> kind, kw |-> kw]

\* the size bookkeeping of the feature extractors
SizeAfter(in, kernel, stride, padding, dilation) ==
    IntDiv((in + 2 * padding) - dilation * (kernel - 1) - 1, stride) + 1

Outcome(exc, layers, pools, features) ==
    [raised |-> exc, layers |-> layers, pools_num |-> pools, features_num |-> features]

\* the pooling layer appended by ConvClassifier and ResNetClassifier
PoolLayers(pooling_type, pool_kernel, pool_stride, pool_padding, pool_dilation) ==
    IF pooling_type = "max"
    THEN <<Layer("MaxPool2d", [kernel_size |-> pool_kernel, stride |-> pool_stride,
                                padding |-> pool_padding, dilation |-> pool_dilation])>>
    ELSE IF pooling_type = "avg"
    THEN <<Layer("AvgPool2d", [kernel_size |-> pool_kernel, stride |-> pool_stride,
                                padding |-> pool_padding])>>
    ELSE <<>>

(***************************************************************************)
(* ConvClassifier._make_feature_extractor                                  *)
(***************************************************************************)
ConvActLayers(a) ==
    IF a.activation_type = "relu" THEN <<Layer("ReLU", NoDict)>>
    ELSE IF a.activation_type = "lrelu"
    THEN <<Layer("LeakyReLU",
                 [negative_slope |-> a.activation_params["negative_slope"]])>>
    ELSE <<>>

\* a faulty variant of PoolDue: the pooling falls one convolution late
PoolDueOffByOne(idx, pool_every) == (idx - 1) % pool_every = 0

PoolDue(idx, pool_every) == idx % pool_every = 0

RECURSIVE ConvLoop(_, _, _)
ConvLoop(a, idx, st) ==
    LET filters_lst == <<a.in_size[1]>> \o a.channels
        conv_kernel == a.conv_params["kernel_size"]
        conv_stride == Get(a.conv_params, "stride", 1)
        conv_padding == Get(a.conv_params, "padding", 0)
        conv_dilation == Get(a.conv_params, "dilation", 1)
        pool_kernel == a.pooling_params["kernel_size"]
        pool_stride == Get(a.pooling_params, "stride", a.pooling_params["kernel_size"])
        pool_padding == Get(a.pooling_params, "padding", 0)
        pool_dilation == Get(a.pooling_params, "dilation", 1)
        conv == Layer("Conv2d", [in_channels |-> filters_lst[idx],
                                 out_channels |-> filters_lst[idx + 1],
                                 kernel_size |-> conv_kernel, stride |-> conv_stride,
                                 padding |-> conv_padding, dilation |-> conv_dilation])
        h1 == SizeAfter(st.in_h, conv_kernel, conv_stride, conv_padding, conv_dilation)
        w1 == SizeAfter(st.in_w, conv_kernel, conv_stride, conv_padding, conv_dilation)
        pool == PoolDue(idx, a.pool_every)
        next == [layers |-> st.layers \o <<conv>> \o ConvActLayers(a)
                              \o (IF pool
                                  THEN PoolLayers(a.pooling_type, pool_kernel, pool_stride,
                                                  pool_padding, pool_dilation)
                                  ELSE <<>>),
                 in_h |-> IF pool
                          THEN SizeAfter(h1, pool_kernel, pool_stride, pool_padding,
                                         pool_dilation)
                          ELSE h1,
                 in_w |-> IF pool
                          THEN SizeAfter(w1, pool_kernel, pool_stride, pool_padding,
                                         pool_dilation)
                          ELSE w1,
                 pools_num |-> IF pool THEN st.pools_num + 1 ELSE st.pools_num]
    IN  IF idx > Len(a.channels) THEN st ELSE ConvLoop(a, idx + 1, next)

ConvClassifier_make_feature_extractor(a) ==
    LET N == Len(a.channels)
        st == ConvLoop(a, 1, [layers |-> <<>>, in_h |-> a.in_size[2],
                              in_w |-> a.in_size[3], pools_num |-> 0])
    IN  IF "kernel_size" \notin DOMAIN a.conv_params
        THEN Outcome("KeyError", <<>>, 0, 1)
        ELSE IF "kernel_size" \notin DOMAIN a.pooling_params
        THEN Outcome("KeyError", <<>>, 0, 1)
        ELSE IF N >= 1 /\ a.activation_type = "lrelu"
                /\ "negative_slope" \notin DOMAIN a.activation_params
        THEN Outcome("KeyError", <<>>, 0, 1)
        ELSE IF N >= 1 /\ a.pool_every = 0
        THEN Outcome("ZeroDivisionError", <<>>, 0, 1)
        ELSE IF N = 0
        THEN Outcome("IndexError", <<>>, 0, 1)
        ELSE Outcome("none", st.layers, st.pools_num, a.channels[N] * st.in_h * st.in_w)

(***************************************************************************)
(* ConvClassifier._n_features and ConvClassifier._make_classifier          *)
(***************************************************************************)
ConvClassifier_n_features(features) == features

ClassifierActLayers(a) ==
    IF a.activation_type = "relu" THEN <<Layer("ReLU", NoDict)>>
    ELSE IF a.activation_type = "lrelu"
    THEN IF a.activation_params # NoDict
         THEN <<Layer("LeakyReLU",
                      [negative_slope |-> a.activation_params["negative_slope"]])>>
         ELSE <<Layer("LeakyReLU", NoDict)>>
    ELSE <<>>

Linear(in_features, out_features) ==
    Layer("Linear", [in_features |-> in_features, out_features |-> out_features])

\* a faulty variant of HiddenInput: input_dimension is never updated
HiddenInputNeverUpdated(a, n_features, hidden) == n_features

HiddenInput(a, n_features, hidden) ==
    IF hidden = 1 THEN n_features ELSE a.hidden_dims[hidden - 1]

LastInput(a, n_features) ==
    IF Len(a.hidden_dims) = 0 THEN n_features ELSE a.hidden_dims[Len(a.hidden_dims)]

RECURSIVE ClassifierLoop(_, _, _)
ClassifierLoop(a, n_features, hidden) ==
    IF hidden > Len(a.hidden_dims) THEN <<>>
    ELSE <<Linear(HiddenInput(a, n_features, hidden), a.hidden_dims[hidden])>>
         \o ClassifierActLayers(a) \o ClassifierLoop(a, n_features, hidden + 1)

\* nn.Linear allocates an out_features x in_features weight, which fails on a
\* negative dimension
ConvClassifier_make_classifier(a, features) ==
    LET n_features == ConvClassifier_n_features(features)
        layers == ClassifierLoop(a, n_features, 1)
                  \o <<Linear(LastInput(a, n_features), a.out_classes)>>
    IN  IF n_features < 0
        THEN [raised |-> "RuntimeError", layers |-> <<>>]
        ELSE [raised |-> "none", layers |-> layers]

(***************************************************************************)
(* ResidualBlock.__init__                                                  *)
(***************************************************************************)
\* a faulty variant of ConvPadding: the padding of a 3x3 kernel, whatever the kernel
ConvPaddingOfThree(kernel_size) == 1

ConvPadding(kernel_size) == IntDiv(kernel_size, 2)

BlockBetween(ch, batchnorm, dropout, activation_type, activation_params) ==
    <<Layer("Dropout2d", [p |-> dropout])>>
    \o (IF batchnorm THEN <<Layer("BatchNorm2d", [num_features |-> ch])>> ELSE <<>>)
    \o (IF activation_type = "relu" THEN <<Layer("ReLU", NoDict)>>
        ELSE IF activation_type = "lrelu"
        THEN IF activation_params # NoDict
             THEN <<Layer("LeakyReLU",
                          [negative_slope |-> activation_params["negative_slope"]])>>
             ELSE <<Layer("LeakyReLU", NoDict)>>
        ELSE <<>>)

RECURSIVE MainLoop(_, _, _)
MainLoop(b, i, tmp_in_channels) ==
    LET ch == b.channels[i]
        conv == Layer("Conv2d", [in_channels |-> tmp_in_channels, out_channels |-> ch,
                                 kernel_size |-> b.kernel_sizes[i], bias |-> TRUE,
                                 padding |-> ConvPadding(b.kernel_sizes[i])])
    IN  IF i > Len(b.channels) THEN <<>>
        ELSE IF i = Len(b.channels) THEN <<conv>>
        ELSE <<conv>>
             \o BlockBetween(ch, b.batchnorm, b.dropout, b.activation_type,
                             b.activation_params)
             \o MainLoop(b, i + 1, ch)

ResidualBlock_main_path(b) == MainLoop(b, 1, b.in_channels)

ResidualBlock_shortcut_path(b) ==
    LET tmp_in_channels == IF Len(b.channels) = 0 THEN b.in_channels
                           ELSE b.channels[Len(b.channels)]
    IN  IF tmp_in_channels # b.in_channels
        THEN <<Layer("Conv2d", [in_channels |-> b.in_channels,
                                out_channels |-> tmp_in_channels,
                                kernel_size |-> 1, bias |-> FALSE])>>
        ELSE <<>>

\* the exception raised by the checks that open ResidualBlock.__init__
ResidualBlock_check(b) ==
    IF Len(b.channels) = 0 \/ Len(b.kernel_sizes) = 0 THEN "AssertionError"
    ELSE IF Len(b.channels) # Len(b.kernel_sizes) THEN "AssertionError"
    ELSE IF \E i \in 1..Len(b.kernel_sizes) : b.kernel_sizes[i] % 2 # 1
    THEN "AssertionError"
    ELSE IF b.activation_type \notin ACTIVATIONS THEN "ValueError"
    ELSE "none"

BlockArgs(in_channels, channels, kernel_sizes, batchnorm, dropout, activation_type, activation_params) ==
    [in_channels |-> in_channels, channels |-> channels, kernel_sizes |-> kernel_sizes,
     batchnorm |-> batchnorm, dropout |-> dropout,
     activation_type |-> activation_type, activation_params |-> activation_params]

\* ResidualBlock(in_channels=, channels=, kernel_sizes=, batchnorm=, dropout=), as the
\* classifiers construct it: a block whose checks pass
ResidualBlock(in_channels, channels, kernel_sizes, batchnorm, dropout) ==
    LET b == BlockArgs(in_channels, channels, kernel_sizes, batchnorm, dropout,
                       "relu", NoDict)
    IN  [kind |-> "ResidualBlock", main_path |-> ResidualBlock_main_path(b),
         shortcut_path |-> ResidualBlock_shortcut_path(b)]

(***************************************************************************)
(* ResNetClassifier._make_feature_extractor                                *)
(***************************************************************************)
RECURSIVE ResNetLoop(_, _, _)
ResNetLoop(a, index, st) ==
    LET pool_kernel == a.pooling_params["kernel_size"]
        pool_stride == Get(a.pooling_params, "stride", a.pooling_params["kernel_size"])
        pool_padding == Get(a.pooling_params, "padding", 0)
        pool_dilation == Get(a.pooling_params, "dilation", 1)
        start_index == a.pool_every * index
        end_index == a.pool_every * (index + 1)
        block == ResidualBlock(st.curr_channels, Slice(a.channels, start_index, end_index),
                               Repeat(3, a.pool_every), a.batchnorm, a.dropout)
        next == [layers |-> st.layers \o <<block>>
                              \o PoolLayers(a.pooling_type, pool_kernel, pool_stride,
                                            pool_padding, pool_dilation),
                 in_h |-> SizeAfter(st.in_h, pool_kernel, pool_stride, pool_padding,
                                    pool_dilation),
                 in_w |-> SizeAfter(st.in_w, pool_kernel, pool_stride, pool_padding,
                                    pool_dilation),
                 pools_num |-> st.pools_num + 1,
                 curr_channels |-> a.channels[end_index]]
    IN  IF index >= IntDiv(Len(a.channels), a.pool_every) THEN st
        ELSE ResNetLoop(a, index + 1, next)

ResNetClassifier_make_feature_extractor(a) ==
    LET channels_length == Len(a.channels)
        remainder == channels_length % a.pool_every
        st == ResNetLoop(a, 0, [layers |-> <<>>, in_h |-> a.in_size[2],
                                in_w |-> a.in_size[3], pools_num |-> 0,
                                curr_channels |-> a.in_size[1]])
        tail == IF remainder # 0
                THEN <<ResidualBlock(st.curr_channels,
                                     Slice(a.channels, channels_length - remainder,
                                           channels_length),
                                     Repeat(3, remainder), a.batchnorm, a.dropout)>>
                ELSE <<>>
    IN  IF "kernel_size" \notin DOMAIN a.pooling_params
        THEN Outcome("KeyError", <<>>, 0, 1)
        ELSE IF a.pool_every = 0
        THEN Outcome("ZeroDivisionError", <<>>, 0, 1)
        ELSE IF channels_length = 0
        THEN Outcome("IndexError", <<>>, 0, 1)
        ELSE Outcome("none", st.layers \o tail, st.pools_num,
                     a.channels[channels_length] * st.in_h * st.in_w)

(***************************************************************************)
(* YourCodeNet._make_feature_extractor.  The blocks are given               *)
(* batchnorm="true", a non-empty string, which the block tests for truth.   *)
(***************************************************************************)
RECURSIVE YourCodeNetLoop(_, _, _)
YourCodeNetLoop(a, index, st) ==
    LET pool_kernel == 2
        pool_stride == 2
        pool_padding == 0
        pool_dilation == 1
        last == IntDiv(Len(a.channels), a.pool_every)
        start_index == a.pool_every * index
        end_index == a.pool_every * (index + 1)
        block == ResidualBlock(st.curr_channels, Slice(a.channels, start_index, end_index),
                               Repeat(3, a.pool_every), TRUE, 0)
        pool == index = last - 1
        next == [layers |-> st.layers \o <<block>>
                              \o (IF pool
                                  THEN <<Layer("MaxPool2d",
                                               [kernel_size |-> pool_kernel,
                                                stride |-> pool_stride,
                                                padding |-> pool_padding,
                                                dilation |-> pool_dilation]),
                                         Layer("Dropout2d", [p |-> 10])>>
                                  ELSE <<>>),
                 in_h |-> IF pool
                          THEN SizeAfter(st.in_h, pool_kernel, pool_stride, pool_padding,
                                         pool_dilation)
                          ELSE st.in_h,
                 in_w |-> IF pool
                          THEN SizeAfter(st.in_w, pool_kernel, pool_stride, pool_padding,
                                         pool_dilation)
                          ELSE st.in_w,
                 pools_num |-> IF pool THEN st.pools_num + 1 ELSE st.pools_num,
                 curr_channels |-> a.channels[end_index]]
    IN  IF index >= last THEN st ELSE YourCodeNetLoop(a, index + 1, next)

YourCodeNet_make_feature_extractor(a) ==
    LET channels_length == Len(a.channels)
        remainder == channels_length % a.pool_every
        st == YourCodeNetLoop(a, 0, [layers |-> <<>>, in_h |-> a.in_size[2],
                                     in_w |-> a.in_size[3], pools_num |-> 0,
                                     curr_channels |-> a.in_size[1]])
        tail == IF remainder # 0
                THEN <<ResidualBlock(st.curr_channels,
                                     Slice(a.channels, channels_length - remainder,
                                           channels_length),
                                     Repeat(3, remainder), TRUE, 0)>>
                ELSE <<>>
    IN  IF a.pool_every = 0
        THEN Outcome("ZeroDivisionError", <<>>, 0, 1)
        ELSE IF channels_length = 0
        THEN Outcome("IndexError", <<>>, 0, 1)
        ELSE Outcome("none", st.layers \o tail, st.pools_num,
                     a.channels[channels_length] * st.in_h * st.in_w)

\* self._make_feature_extractor(): the method of the object's class
MakeFeatureExtractor(c, a) ==
    IF c = "ResNetClassifier" THEN ResNetClassifier_make_feature_extractor(a)
    ELSE IF c = "YourCodeNet" THEN YourCodeNet_make_feature_extractor(a)
    ELSE ConvClassifier_make_feature_extractor(a)

(***************************************************************************)
(* ResidualBottleneckBlock.__init__: the arguments it hands to             *)
(* ResidualBlock.__init__                                                   *)
(***************************************************************************)
ResidualBottleneckBlock_super_args(a) ==
    BlockArgs(a.in_out_channels,
              <<a.inner_channels[1]>> \o a.inner_channels \o <<a.in_out_channels>>,
              <<1>> \o a.inner_kernel_sizes \o <<1>>,
              Get(a.kwargs, "batchnorm", FALSE),
              Get(a.kwargs, "dropout", 0),
              Get(a.kwargs, "activation_type", "relu"),
              Get(a.kwargs, "activation_params", NoDict))

(***************************************************************************)
(* The constructor calls that are explored.                                *)
(***************************************************************************)
NetClasses == {"ConvClassifier", "ResNetClassifier", "YourCodeNet"}
BlockClasses == {"ResidualBlock", "ResidualBottleneckBlock"}

\* <<activation_type, activation_params>>
ActivationChoices ==
    {<<"relu", NoDict>>, <<"lrelu", NoDict>>, <<"lrelu", [negative_slope |-> 20]>>,
     <<"tanh", NoDict>>}
PoolingChoices == {"max", "avg", "min"}

\* a conv_params / pooling_params dict; a value of -1 leaves the key out
GeomDict(k, s, p, d) ==
    LET full == [kernel_size |-> k, stride |-> s, padding |-> p, dilation |-> d]
    IN  [key \in {x \in DOMAIN full : full[x] # -1} |-> full[key]]
GeomDicts ==
    {NoDict} \cup {GeomDict(k, s, p, d) : k \in 1..MaxKernel, s \in {-1, 1, 2},
                                          p \in {-1, 1}, d \in {-1, 2}}
FewConvParams == {[kernel_size |-> 1], [kernel_size |-> 3, padding |-> 1]}
FewPoolingParams == {[kernel_size |-> 2], [kernel_size |-> 3, stride |-> 2, padding |-> 1]}

NetArgs(in_size, channels, pool_every, hidden_dims, conv_params, act, pooling_type, pooling_params, batchnorm, dropout) ==
    [in_size |-> in_size, out_classes |-> 10, channels |-> channels,
     pool_every |-> pool_every, hidden_dims |-> hidden_dims, conv_params |-> conv_params,
     activation_type |-> act[1], activation_params |-> act[2],
     pooling_type |-> pooling_type, pooling_params |-> pooling_params,
     batchnorm |-> batchnorm, dropout |-> dropout]

\* the architecture arguments vary, the geometry is fixed: every channels list with
\* an empty or a fixed hidden_dims, and every hidden_dims with an empty or a fixed
\* channels list
ArchLists ==
    (SeqsUpTo(ChannelValues, MaxN) \X {<<>>, <<2, 1>>})
    \cup ({<<>>, <<1, 2>>} \X SeqsUpTo(ChannelValues, MaxM))

\* the geometry varies, the architecture is one of a few: <<channels, pool_every>>
ShapeLists ==
    {<<(<<2>>), 1>>, <<(<<2>>), 2>>, <<(<<1, 2>>), 1>>, <<(<<1, 2>>), 2>>,
     <<(<<1, 2, 2>>), 2>>}

ShapeArgs(h, w, np, pooling_type, conv_params, pooling_params) ==
    NetArgs(<<1, h, w>>, np[1], np[2], <<2>>, conv_params, <<"relu", NoDict>>,
            pooling_type, pooling_params, FALSE, 0)

\* every channels list with 3x3 kernels of the same length, and every kernel_sizes
\* list with a fixed channels list of the same length or one longer
BlockLists ==
    {<<channels, Repeat(3, Len(channels))>> : channels \in SeqsUpTo(ChannelValues, MaxN)}
    \cup {<<[i \in 1..(Len(kernel_sizes) + more) |-> 1 + (i % 2)], kernel_sizes>> :
            more \in {0, 1}, kernel_sizes \in SeqsUpTo(KernelValues, MaxN)}

BottleneckKwargs ==
    {NoDict, [batchnorm |-> TRUE, dropout |-> 50],
     [activation_type |-> "lrelu", activation_params |-> [negative_slope |-> 20]],
     [activation_type |-> "tanh"]}

InitPc(c) ==
    CASE c = "ConvClassifier" -> "ConvClassifier.__init__"
      [] c = "ResNetClassifier" -> "ResNetClassifier.__init__"
      [] c = "YourCodeNet" -> "YourCodeNet.__init__"
      [] c = "ResidualBlock" -> "ResidualBlock.__init__"
      [] c = "ResidualBottleneckBlock" -> "ResidualBottleneckBlock.__init__"

\* the constructor of class c is called with the arguments a
Start(c, a) ==
    /\ cls = c
    /\ args = a
    /\ pc = InitPc(c)
    /\ raised = "none"
    /\ attrs = {}
    /\ feature_extractor = <<>>
    /\ classifier = <<>>
    /\ pools_num = 0
    /\ features_num = 0
    /\ main_path = <<>>
    /\ shortcut_path = <<>>

ArchCalls ==
    \/ \E c \in NetClasses, ch \in ArchLists, P \in 0..MaxP, act \in ActivationChoices,
          pt \in PoolingChoices :
          Start(c, NetArgs(<<3, MaxDim, MaxDim>>, ch[1], P, ch[2], [kernel_size |-> 1],
                           act, pt, [kernel_size |-> 2], FALSE, 0))
    \/ \E channels \in SeqsUpTo(ChannelValues, MaxN), P \in 1..MaxP,
          bd \in {<<TRUE, 0>>, <<FALSE, 50>>, <<TRUE, 50>>} :
          Start("ResNetClassifier",
                NetArgs(<<3, MaxDim, MaxDim>>, channels, P, <<2>>, NoDict,
                        <<"relu", NoDict>>, "max", [kernel_size |-> 2], bd[1], bd[2]))

ShapeCalls ==
    \E h \in 1..MaxDim, w \in 1..MaxDim, np \in ShapeLists :
        \/ \E cp \in GeomDicts, pp \in FewPoolingParams :
              Start("ConvClassifier", ShapeArgs(h, w, np, "max", cp, pp))
        \/ \E pt \in POOLINGS, cp \in FewConvParams, pp \in GeomDicts :
              Start("ConvClassifier", ShapeArgs(h, w, np, pt, cp, pp))
        \/ \E pt \in POOLINGS, pp \in GeomDicts :
              Start("ResNetClassifier", ShapeArgs(h, w, np, pt, NoDict, pp))
        \/ Start("YourCodeNet", ShapeArgs(h, w, np, "max", NoDict, NoDict))

BlockCalls ==
    \E ic \in ChannelValues, ck \in BlockLists, bn \in BOOLEAN, dr \in {0, 50},
       act \in ActivationChoices :
        Start("ResidualBlock", BlockArgs(ic, ck[1], ck[2], bn, dr, act[1], act[2]))

BottleneckCalls ==
    \E io \in ChannelValues, inner \in SeqsUpTo(ChannelValues, MaxN - 1),
       ks \in SeqsUpTo(KernelValues, MaxN - 1), kw \in BottleneckKwargs :
        Start("ResidualBottleneckBlock",
              [in_out_channels |-> io, inner_channels |-> inner,
               inner_kernel_sizes |-> ks, kwargs |-> kw])

Init == ArchCalls \/ ShapeCalls \/ BlockCalls \/ BottleneckCalls

(***************************************************************************)
(* The constructors, step by step.  attrs is the set of attributes of self *)
(* that have been assigned (a module, or a number).                        *)
(***************************************************************************)
Raise(exc) ==
    /\ raised' = exc
    /\ pc' = "raised"

ResNetClassifierInit ==
    /\ pc = "ResNetClassifier.__init__"
    /\ attrs' = attrs \cup {"batchnorm", "dropout"}
    /\ pc' = "ConvClassifier.__init__"
    /\ UNCHANGED <<cls, args, raised, feature_extractor, classifier, pools_num,
                   features_num, main_path, shortcut_path>>

YourCodeNetInit ==
    /\ pc = "YourCodeNet.__init__"
    /\ pc' = "ConvClassifier.__init__"
    /\ UNCHANGED <<cls, args, raised, attrs, feature_extractor, classifier, pools_num,
                   features_num, main_path, shortcut_path>>

\* a faulty variant of ConvClassifier_check: the pooling type is not looked at
ConvClassifier_check_activation_only(a) ==
    IF Len(a.channels) = 0 \/ Len(a.hidden_dims) = 0 THEN "AssertionError"
    ELSE IF a.activation_type \notin ACTIVATIONS THEN "ValueError"
    ELSE "none"

\* the exception raised by the checks of ConvClassifier.__init__
ConvClassifier_check(a) ==
    IF Len(a.channels) = 0 \/ Len(a.hidden_dims) = 0 THEN "AssertionError"
    ELSE IF a.activation_type \notin ACTIVATIONS \/ a.pooling_type \notin POOLINGS
    THEN "ValueError"
    ELSE "none"

ConvClassifierInit ==
    /\ pc = "ConvClassifier.__init__"
    /\ IF ConvClassifier_check(args) # "none"
       THEN Raise(ConvClassifier_check(args))
       ELSE /\ pc' = "_make_feature_extractor"
            /\ UNCHANGED raised
    /\ UNCHANGED <<cls, args, attrs, feature_extractor, classifier, pools_num,
                   features_num, main_path, shortcut_path>>

ConvClassifierFeatureExtractor ==
    /\ pc = "_make_feature_extractor"
    /\ LET made == MakeFeatureExtractor(cls, args)
       IN  /\ pools_num' = made.pools_num
           /\ features_num' = made.features_num
           /\ IF made.raised # "none"
              THEN /\ Raise(made.raised)
                   /\ attrs' = attrs \cup {"pools_num", "features_num"}
                   /\ UNCHANGED feature_extractor
              ELSE /\ feature_extractor' = made.layers
                   /\ attrs' = attrs \cup {"pools_num", "features_num", "feature_extractor"}
                   /\ pc' = "_make_classifier"
                   /\ UNCHANGED raised
    /\ UNCHANGED <<cls, args, classifier, main_path, shortcut_path>>

ConvClassifierClassifier ==
    /\ pc = "_make_classifier"
    /\ LET made == ConvClassifier_make_classifier(args, features_num)
       IN  IF made.raised # "none"
           THEN /\ Raise(made.raised)
                /\ UNCHANGED <<classifier, attrs>>
           ELSE /\ classifier' = made.layers
                /\ attrs' = attrs \cup {"classifier"}
                /\ pc' = IF cls = "YourCodeNet" THEN "YourCodeNet.rebuild" ELSE "done"
                /\ UNCHANGED raised
    /\ UNCHANGED <<cls, args, feature_extractor, pools_num, features_num, main_path,
                   shortcut_path>>

\* YourCodeNet.__init__ after super().__init__(): both parts are built again
YourCodeNetRebuild ==
    /\ pc = "YourCodeNet.rebuild"
    /\ LET made == MakeFeatureExtractor(cls, args)
           again == ConvClassifier_make_classifier(args, made.features_num)
       IN  /\ pools_num' = made.pools_num
           /\ features_num' = made.features_num
           /\ IF made.raised # "none"
              THEN /\ Raise(made.raised)
                   /\ UNCHANGED <<feature_extractor, classifier, attrs>>
              ELSE /\ feature_extractor' = made.layers
                   /\ IF again.raised # "none"
                      THEN /\ Raise(again.raised)
                           /\ UNCHANGED <<classifier, attrs>>
                      ELSE /\ classifier' = again.layers
                           /\ attrs' = attrs \cup {"dropout"}
                           /\ pc' = "done"
                           /\ UNCHANGED raised
    /\ UNCHANGED <<cls, args, main_path, shortcut_path>>

ResidualBottleneckBlockInit ==
    /\ pc = "ResidualBottleneckBlock.__init__"
    /\ IF Len(args.inner_channels) = 0
       THEN /\ Raise("IndexError")
            /\ UNCHANGED args
       ELSE /\ args' = ResidualBottleneckBlock_super_args(args)
            /\ pc' = "ResidualBlock.__init__"
            /\ UNCHANGED raised
    /\ UNCHANGED <<cls, attrs, feature_extractor, classifier, pools_num, features_num,
                   main_path, shortcut_path>>

ResidualBlockInit ==
    /\ pc = "ResidualBlock.__init__"
    /\ IF ResidualBlock_check(args) # "none"
       THEN Raise(ResidualBlock_check(args))
       ELSE /\ pc' = "main_path"
            /\ UNCHANGED raised
    /\ UNCHANGED <<cls, args, attrs, feature_extractor, classifier, pools_num,
                   features_num, main_path, shortcut_path>>

ResidualBlockMainPath ==
    /\ pc = "main_path"
    /\ main_path' = ResidualBlock_main_path(args)
    /\ attrs' = attrs \cup {"main_path"}
    /\ pc' = "shortcut_path"
    /\ UNCHANGED <<cls, args, raised, feature_extractor, classifier, pools_num,
                   features_num, shortcut_path>>

ResidualBlockShortcutPath ==
    /\ pc = "shortcut_path"
    /\ shortcut_path' = ResidualBlock_shortcut_path(args)
    /\ attrs' = attrs \cup {"shortcut_path"}
    /\ pc' = "done"
    /\ UNCHANGED <<cls, args, raised, feature_extractor, classifier, pools_num,
                   features_num, main_path>>

Next ==
    \/ ResNetClassifierInit
    \/ YourCodeNetInit
    \/ ConvClassifierInit
    \/ ConvClassifierFeatureExtractor
    \/ ConvClassifierClassifier
    \/ YourCodeNetRebuild
    \/ ResidualBottleneckBlockInit
    \/ ResidualBlockInit
    \/ ResidualBlockMainPath
    \/ ResidualBlockShortcutPath

Spec == Init /\ [][Next]_vars

(***************************************************************************)
(* What a built nn.Sequential computes: the standard output-size formula    *)
(* of a convolution or pooling layer, on the arguments the layer was given  *)
(* (stride defaults to 1 for a convolution and to kernel_size for a         *)
(* pooling layer, padding to 0, dilation to 1).                             *)
(***************************************************************************)
OutputSize(in, kernel, stride, padding, dilation) ==
    ((in + 2 * padding - dilation * (kernel - 1) - 1) \div stride) + 1

IsPool(layer) == layer.kind \in {"MaxPool2d", "AvgPool2d"}
IsAct(layer) == layer.kind \in {"ReLU", "LeakyReLU"}
IsConv(layer) == layer.kind = "Conv2d"

RECURSIVE SequentialSize(_, _)
LayerSize(layer, in) ==
    IF layer.kind = "Conv2d"
    THEN OutputSize(in, layer.kw["kernel_size"], Get(layer.kw, "stride", 1),
                    Get(layer.kw, "padding", 0), Get(layer.kw, "dilation", 1))
    ELSE IF IsPool(layer)
    THEN OutputSize(in, layer.kw["kernel_size"],
                    Get(layer.kw, "stride", layer.kw["kernel_size"]),
                    Get(layer.kw, "padding", 0), Get(layer.kw, "dilation", 1))
    ELSE IF layer.kind = "ResidualBlock"
    THEN SequentialSize(layer.main_path, in)
    ELSE in
SequentialSize(layers, in) ==
    IF layers = <<>> THEN in
    ELSE SequentialSize(Tail(layers), LayerSize(Head(layers), in))

\* the number of features the feature extractor puts out for an in_size input
ExtractedFeatures ==
    args.channels[Len(args.channels)]
    * SequentialSize(feature_extractor, args.in_size[2])
    * SequentialSize(feature_extractor, args.in_size[3])

Positions(layers, Is(_)) == {j \in 1..Len(layers) : Is(layers[j])}
Nth(S, i) == CHOOSE j \in S : Cardinality({k \in S : k <= j}) = i
Built(attr) == attr \in attrs

(***************************************************************************)
(* C1: the feature extractor of a ConvClassifier is                        *)
(* [(CONV -> ACT)*P -> POOL]*(N/P): N convolutions, each followed at once   *)
(* by one activation, a pooling layer after the activation of the i-th     *)
(* convolution exactly when i mod P = 0 (floor(N/P) of them, which is       *)
(* pools_num), nothing else, and convolution i maps channels[i-2]           *)
(* (in_size[0] for the first) to channels[i-1] channels.                    *)
(***************************************************************************)
RECURSIVE ConvActPool(_, _, _)
ConvActPool(i, N, P) ==
    IF i > N THEN <<>>
    ELSE <<"conv", "act">> \o (IF i % P = 0 THEN <<"pool">> ELSE <<>>)
         \o ConvActPool(i + 1, N, P)

Shape(layers) ==
    [j \in 1..Len(layers) |->
        IF IsConv(layers[j]) THEN "conv"
        ELSE IF IsAct(layers[j]) THEN "act"
        ELSE IF IsPool(layers[j]) THEN "pool"
        ELSE "other"]

C1_FeatureExtractorShape ==
    (cls = "ConvClassifier" /\ Built("feature_extractor")) =>
        LET N == Len(args.channels)
            P == args.pool_every
            convs == Positions(feature_extractor, IsConv)
            pools == Positions(feature_extractor, IsPool)
        IN  /\ N >= 1 /\ P >= 1
            /\ Shape(feature_extractor) = ConvActPool(1, N, P)
            /\ Cardinality(convs) = N
            /\ Cardinality(Positions(feature_extractor, IsAct)) = N
            /\ Cardinality(pools) = N \div P
            /\ pools_num = N \div P
            /\ \A i \in 1..N :
                  LET j == Nth(convs, i)
                  IN  /\ IsAct(feature_extractor[j + 1])
                      /\ (j + 2 \in pools) <=> (i % P = 0)
                      /\ feature_extractor[j].kw["in_channels"]
                           = (IF i = 1 THEN args.in_size[1] ELSE args.channels[i - 1])
                      /\ feature_extractor[j].kw["out_channels"] = args.channels[i]
            /\ N % P # 0 =>
                  \A j \in 1..Len(feature_extractor) :
                      j > Len(feature_extractor) - 2 * (N % P) => ~IsPool(feature_extractor[j])

C1_Witness ==
    /\ cls = "ConvClassifier" /\ pc = "done"
    /\ Len(args.channels) = 3 /\ args.pool_every = 2
    /\ Len(feature_extractor) = 7

(***************************************************************************)
(* C2: _n_features() of a constructed ConvClassifier is the number of      *)
(* features its feature extractor puts out: channels[-1] * H * W with H, W  *)
(* from the output-size formula of every convolution and pooling layer in   *)
(* the sequence, on the arguments that layer was given.                     *)
(***************************************************************************)
C2_NFeaturesIsExtractorOutput ==
    (cls = "ConvClassifier" /\ pc = "done") =>
        ConvClassifier_n_features(features_num) = ExtractedFeatures

(***************************************************************************)
(* C3: the classifier is (FC -> ACT)*M -> FC: M+1 Linear layers and M       *)
(* activations, alternating, ending with a Linear; the first Linear takes   *)
(* _n_features() inputs, the k-th hidden Linear puts out hidden_dims[k],    *)
(* every later Linear takes what the Linear before it puts out, and the     *)
(* last one puts out out_classes.                                           *)
(***************************************************************************)
C3_ClassifierShape ==
    (cls \in NetClasses /\ Built("classifier")) =>
        LET M == Len(args.hidden_dims)
            linears == Positions(classifier, LAMBDA l : l.kind = "Linear")
        IN  /\ M >= 1
            /\ Len(classifier) = 2 * M + 1
            /\ Cardinality(linears) = M + 1
            /\ Cardinality(Positions(classifier, IsAct)) = M
            /\ \A k \in 1..M :
                  /\ classifier[2 * k - 1].kind = "Linear"
                  /\ classifier[2 * k - 1].kw["out_features"] = args.hidden_dims[k]
                  /\ IsAct(classifier[2 * k])
                  /\ classifier[2 * k + 1].kind = "Linear"
                  /\ classifier[2 * k + 1].kw["in_features"]
                       = classifier[2 * k - 1].kw["out_features"]
            /\ classifier[1].kw["in_features"] = ConvClassifier_n_features(features_num)
            /\ classifier[2 * M + 1].kw["out_features"] = args.out_classes

C3_Witness ==
    /\ cls = "ConvClassifier" /\ pc = "done"
    /\ args.hidden_dims = <<2, 1>>
    /\ Len(classifier) = 5
    /\ features_num > 2

(***************************************************************************)
(* C4: a constructor given an unsupported activation_type (or, for the      *)
(* classifiers, pooling_type) ends in a ValueError and builds nothing.      *)
(***************************************************************************)
Ended == pc \in {"done", "raised"}

UnsupportedNet ==
    /\ cls \in NetClasses
    /\ args.activation_type \notin ACTIVATIONS \/ args.pooling_type \notin POOLINGS

\* ResidualBlock.__init__ is running, or has run, on an unsupported activation_type
UnsupportedBlock ==
    /\ cls \in BlockClasses
    /\ "activation_type" \in DOMAIN args
    /\ args.activation_type \notin ACTIVATIONS

NothingBuilt ==
    attrs \cap {"feature_extractor", "classifier", "main_path", "shortcut_path"} = {}

\* C4 as claimed: whatever the other arguments are, the constructor ends in a
\* ValueError with nothing built
C4_UnsupportedEndsInValueError ==
    (UnsupportedNet \/ UnsupportedBlock) =>
        /\ NothingBuilt
        /\ Ended => raised = "ValueError"

\* C4 as amended: the assertions on the list arguments come first, so the constructor
\* ends in a ValueError when they pass and in an AssertionError when one fails; in
\* both cases nothing is built, and no step of construction is ever reached
C4_UnsupportedEndsInValueErrorAfterAsserts ==
    /\ UnsupportedNet =>
          /\ NothingBuilt
          /\ pc \in {"ConvClassifier.__init__", "ResNetClassifier.__init__",
                     "YourCodeNet.__init__", "raised"}
          /\ Ended =>
                raised = (IF Len(args.channels) >= 1 /\ Len(args.hidden_dims) >= 1
                          THEN "ValueError" ELSE "AssertionError")
    /\ UnsupportedBlock =>
          /\ NothingBuilt
          /\ pc \in {"ResidualBlock.__init__", "raised"}
          /\ Ended =>
                raised = (IF /\ Len(args.channels) >= 1
                             /\ Len(args.kernel_sizes) = Len(args.channels)
                             /\ \A i \in 1..Len(args.kernel_sizes) :
                                   args.kernel_sizes[i] % 2 = 1
                          THEN "ValueError" ELSE "AssertionError")

C4_Witness ==
    /\ cls = "ResNetClassifier" /\ pc = "raised" /\ raised = "ValueError"
    /\ args.activation_type = "relu" /\ args.pooling_type = "min"
    /\ NothingBuilt

(***************************************************************************)
(* C5: main_path of a ResidualBlock holds K convolutions and ends with      *)
(* one; between two consecutive convolutions come dropout, batchnorm,       *)
(* activation in this order, the batchnorm exactly when batchnorm is true   *)
(* and exactly one activation; convolution i has kernel kernel_sizes[i],    *)
(* padding floor(kernel_sizes[i]/2), stride 1 and a bias, and so keeps the  *)
(* height and width of its input.                                           *)
(***************************************************************************)
BlockKinds(layers) ==
    [j \in 1..Len(layers) |->
        IF IsAct(layers[j]) THEN "act" ELSE layers[j].kind]

Between(layers, from, to) == [m \in 1..(to - from - 1) |-> layers[from + m]]

AllowedBetween(batchnorm) ==
    IF batchnorm
    THEN {<<"Dropout2d", "BatchNorm2d", "act">>, <<"BatchNorm2d", "act">>}
    ELSE {<<"Dropout2d", "act">>, <<"act">>}

C5_MainPathShape ==
    (cls \in BlockClasses /\ Built("main_path")) =>
        LET K == Len(args.channels)
            convs == Positions(main_path, IsConv)
        IN  /\ K >= 1
            /\ Len(args.kernel_sizes) = K
            /\ Cardinality(convs) = K
            /\ Nth(convs, K) = Len(main_path)
            /\ Cardinality(Positions(main_path, IsAct)) = K - 1
            /\ \A i \in 1..(K - 1) :
                  BlockKinds(Between(main_path, Nth(convs, i), Nth(convs, i + 1)))
                      \in AllowedBetween(args.batchnorm)
            /\ \A i \in 1..K :
                  LET conv == main_path[Nth(convs, i)]
                  IN  /\ conv.kw["kernel_size"] = args.kernel_sizes[i]
                      /\ conv.kw["padding"] = args.kernel_sizes[i] \div 2
                      /\ Get(conv.kw, "stride", 1) = 1
                      /\ conv.kw["bias"]
                      /\ \A h \in 1..MaxDim : LayerSize(conv, h) = h

C5_Witness ==
    /\ cls = "ResidualBlock" /\ pc = "done"
    /\ Len(args.channels) = 3 /\ args.batchnorm
    /\ args.kernel_sizes[1] = 1 /\ args.kernel_sizes[2] = 3
    /\ Len(main_path) = 9

(***************************************************************************)
(* C6: zero dropout means no dropout: main_path holds a Dropout layer only  *)
(* when dropout > 0.                                                        *)
(***************************************************************************)
C6_DropoutLayerOnlyWhenPositive ==
    (cls \in BlockClasses /\ Built("main_path")) =>
        (Positions(main_path, LAMBDA l : l.kind = "Dropout2d") # {}
            => args.dropout > 0)

(***************************************************************************)
(* C7: once a ResNetClassifier or a YourCodeNet is constructed, the first   *)
(* Linear of the classifier takes channels[-1] * H * W inputs, H and W      *)
(* being what the installed feature extractor puts out, and pools_num is    *)
(* the number of pooling layers in it: floor(N/P) for ResNetClassifier, 1   *)
(* if N >= P and 0 otherwise for YourCodeNet.                               *)
(***************************************************************************)
C7_FirstLinearTakesExtractorOutput ==
    (cls \in {"ResNetClassifier", "YourCodeNet"} /\ pc = "done") =>
        LET N == Len(args.channels)
            P == args.pool_every
        IN  /\ classifier[1].kw["in_features"] = ExtractedFeatures
            /\ pools_num = Cardinality(Positions(feature_extractor, IsPool))
            /\ pools_num = (IF cls = "ResNetClassifier" THEN N \div P
                            ELSE IF N >= P THEN 1 ELSE 0)

====
